---- MODULE Spec2Model ----
(***************************************************************************)
(* gcloud_logs.py: peek and tail Stackdriver logs for GCE instances.       *)
(*                                                                         *)
(* The model follows one run of the script: option parsing, main, the      *)
(* output sink, and either one bounded query (peek) or the tail loop with  *)
(* its watermark pair.  The logging backend, the clock, CTRL+C and backend *)
(* failures are the environment.                                           *)
(*                                                                         *)
(* Time: an instant is a natural number.  A datetime is a record           *)
(* [wall, tz]: the wall-clock reading and the zone attached to it          *)
(* ("naive" when there is no tzinfo, "absent" for Python's None).          *)
(***************************************************************************)
EXTENDS Integers, Sequences, FiniteSets, TLC

\* ---- bounds of the model ------------------------------------------------
MaxTime == 2       \* the clock runs over the instants 0..MaxTime
MaxRec  == 2       \* at most MaxRec log entries ever reach the backend
MaxOpts == 2       \* at most MaxOpts optional flags on the command line

\* ---- program constants --------------------------------------------------
POLL_INTERVAL == 1
LocalOffset   == 1     \* UTC offset of the process's local timezone

\* ---- datetimes ----------------------------------------------------------
NoDate == [wall |-> 0, tz |-> "absent"]
IsNone(d) == d.tz = "absent"
HasTzinfo(d) == d.tz \in {"utc", "local"}

UtcOffset(tz) == IF tz = "local" THEN LocalOffset ELSE 0

\* the instant an aware datetime denotes
Instant(d) == d.wall - UtcOffset(d.tz)

\* datetime.now().astimezone(): the clock reading in the local zone
NowLocal(t) == [wall |-> t + LocalOffset, tz |-> "local"]

\* datetime.isoformat(): wall-clock reading followed by the UTC offset, if any
isoformat(d) ==
    ToString(d.wall) \o (IF d.tz = "utc" THEN "+00:00"
                         ELSE IF d.tz = "local" THEN "+01:00"
                         ELSE "")

AwareDateTimes ==
    [wall : 0..(MaxTime + 2 * LocalOffset + 1), tz : {"utc", "local"}]

\* the backend's reading of an ISO-8601 timestamp literal
fromisoformat(s) == CHOOSE d \in AwareDateTimes : isoformat(d) = s

\* adjust_tz without the test on tzinfo
adjust_tz_ignores_tzinfo(ts, utc) ==
    IF IsNone(ts)
    THEN ts
    ELSE IF utc THEN [ts EXCEPT !.tz = "utc"]
                ELSE [ts EXCEPT !.tz = "local"]

adjust_tz(ts, utc) ==
    IF IsNone(ts) \/ HasTzinfo(ts)
    THEN ts
    ELSE IF utc THEN [ts EXCEPT !.tz = "utc"]
                ELSE [ts EXCEPT !.tz = "local"]

\* ---- filter expressions -------------------------------------------------
\* A filter string is kept as the sequence of its pieces, each piece a pair
\* <<text, value>>; a clause is a sequence of pieces.
RT   == "resource.type="
INST == "resource.labels.instance_id="
GE   == "timestamp >= "
LE   == "timestamp <= "
AND  == <<" AND ", "">>
OR   == <<" OR ", "">>
LP   == <<"(", "">>
RP   == <<")", "">>

\* sep.join(clauses)
RECURSIVE Join(_, _)
Join(clauses, sep) ==
    IF clauses = <<>> THEN <<>>
    ELSE IF Len(clauses) = 1 THEN clauses[1]
    ELSE clauses[1] \o <<sep>> \o Join(Tail(clauses), sep)

\* make_filter without the test on machines
make_filter_always_group(machines, from_date, to_date) ==
    LET c0 == << << <<RT, "gce_instance">> >> >>
        clause == Join([i \in 1..Len(machines) |-> << <<INST, machines[i]>> >>], OR)
        c1 == Append(c0, <<LP>> \o clause \o <<RP>>)
        c2 == Append(c1, << <<GE, isoformat(from_date)>> >>)
        c3 == IF ~IsNone(to_date)
              THEN Append(c2, << <<LE, isoformat(to_date)>> >>)
              ELSE c2
    IN  Join(c3, AND)

make_filter(machines, from_date, to_date) ==
    LET c0 == << << <<RT, "gce_instance">> >> >>
        clause == Join([i \in 1..Len(machines) |-> << <<INST, machines[i]>> >>], OR)
        c1 == IF machines # <<>> THEN Append(c0, <<LP>> \o clause \o <<RP>>) ELSE c0
        c2 == Append(c1, << <<GE, isoformat(from_date)>> >>)
        c3 == IF ~IsNone(to_date)
              THEN Append(c2, << <<LE, isoformat(to_date)>> >>)
              ELSE c2
    IN  Join(c3, AND)

\* ---- the logging backend ------------------------------------------------
InstanceIds   == {"vm-1", "vm-2"}
ResourceTypes == {"gce_instance"}

\* does the backend select entry e for filter f
Matches(f, e) ==
    /\ \A i \in 1..Len(f) : f[i][1] = RT => e.rtype = f[i][2]
    /\ (\E i \in 1..Len(f) : f[i][1] = INST)
          => \E i \in 1..Len(f) : f[i][1] = INST /\ f[i][2] = e.instance_id
    /\ \A i \in 1..Len(f) :
          f[i][1] = GE => e.timestamp >= Instant(fromisoformat(f[i][2]))
    /\ \A i \in 1..Len(f) :
          f[i][1] = LE => e.timestamp <= Instant(fromisoformat(f[i][2]))

\* the backend returns entries by ascending timestamp, then insert id
Before(a, b) ==
    \/ a.timestamp < b.timestamp
    \/ a.timestamp = b.timestamp /\ a.insert_id <= b.insert_id

RECURSIVE SortEntries(_)
SortEntries(S) ==
    IF S = {} THEN <<>>
    ELSE LET m == CHOOSE a \in S : \A b \in S : Before(a, b)
         IN  <<m>> \o SortEntries(S \ {m})

list_entries(entries, f) == SortEntries({e \in entries : Matches(f, e)})

\* ---- formatters ---------------------------------------------------------
to_api_repr(e) ==
    [resource    |-> [type |-> e.rtype, labels |-> [instance_id |-> e.instance_id]],
     timestamp   |-> ToString(e.timestamp) \o "Z",
     severity    |-> "INFO",
     textPayload |-> "msg-" \o ToString(e.insert_id),
     insertId    |-> e.insert_id]

api_format(response) == to_api_repr(response)

line_format(response) ==
    LET json == to_api_repr(response)
        machine == json.resource.labels.instance_id
    IN  "<LIGHTGREEN_EX>" \o machine \o "<LIGHTCYAN_EX>"
          \o " [" \o json.timestamp \o "] " \o "<BRIGHT>"
          \o "(" \o json.severity \o "): "
          \o "<RESET_ALL>" \o json.textPayload

Format(f, e) == IF f = "api_format" THEN api_format(e) ELSE line_format(e)

\* ---- state ---------------------------------------------------------------
VARIABLES
    args,            \* the command line: machine, from_date, to_date, tail, utc, to_file, api
    pc,              \* where the script is
    exit_status,     \* "running", "ok", "failure" or "usage"
    now,             \* the clock
    entries,         \* log entries visible in the backend
    formatter, from_date, to_date, client,     \* locals of main
    sink,            \* the output sink: "unopened", "stdout", "file" or "closed"
    low_watermark, high_watermark, wake,       \* locals of tail; wake ends the sleep
    filter, result, idx, empty, ret,           \* print_logs: query, result, iterator, return value
    out,             \* lines written to the sink
    stderr,          \* lines written to the error stream
    queries,         \* log of the queries issued: lower bound, upper bound, result size
    emitted,         \* the entries behind the lines of out
    sigint,          \* where CTRL+C hit, if it did
    failed           \* where the backend failed, if it did

vars == <<args, pc, exit_status, now, entries, formatter, from_date, to_date, client,
          sink, low_watermark, high_watermark, wake, filter, result, idx, empty, ret,
          out, stderr, queries, emitted, sigint, failed>>

env    == <<now, entries>>
mainv  == <<formatter, from_date, to_date, client>>
tailv  == <<low_watermark, high_watermark, wake>>
queryv == <<filter, result, idx, empty, ret>>
ghostv == <<sigint, failed>>

NoFile  == "<None>"
BadPath == "/no/such/dir/out.log"
Notice  == "<LIGHTRED_EX>CTRL+C pressed. Aborting.<RESET>"
NoEvent == [at |-> "", queries |-> 0, out |-> 0]

Machines == {<<>>, <<"vm-1">>, <<"vm-1", "vm-2">>}
FromDates == {[wall |-> 1, tz |-> "local"], [wall |-> 1, tz |-> "naive"]}
ToDates == {NoDate, [wall |-> 2, tz |-> "utc"]}
ToFiles == {NoFile, "out.log", BadPath}

B2N(b) == IF b THEN 1 ELSE 0

\* how many of --to-date, --tail, --utc, --to-file, --api are given
OptCount(a) ==
    B2N(~IsNone(a.to_date)) + B2N(a.tail) + B2N(a.utc) + B2N(a.to_file # NoFile)
        + B2N(a.api)

Args ==
    {a \in [machine : Machines, from_date : FromDates, to_date : ToDates,
             tail : BOOLEAN, utc : BOOLEAN, to_file : ToFiles, api : BOOLEAN] :
        OptCount(a) <= MaxOpts}

Init ==
    /\ args \in Args
    /\ pc = "parse_opts"
    /\ exit_status = "running"
    /\ now = 0
    /\ entries = {}
    /\ formatter = "" /\ from_date = NoDate /\ to_date = NoDate /\ client = FALSE
    /\ sink = "unopened"
    /\ low_watermark = NoDate /\ high_watermark = NoDate /\ wake = 0
    /\ filter = <<>> /\ result = <<>> /\ idx = 0 /\ empty = TRUE /\ ret = TRUE
    /\ out = <<>> /\ stderr = <<>> /\ queries = <<>> /\ emitted = <<>>
    /\ sigint = NoEvent /\ failed = NoEvent

\* ---- the script ---------------------------------------------------------
\* Exit with the file opened outside any with-block: nothing closes it
ExitLeakingFile(status) ==
    /\ pc' = "exited"
    /\ exit_status' = status
    /\ sink' = sink

\* leaving the with-block of main and ending the process
Exit(status) ==
    /\ pc' = "exited"
    /\ exit_status' = status
    /\ sink' = IF sink = "file" THEN "closed" ELSE sink

\* ParseOpts with --to-date and --tail as two independent options
ParseOptsNoGroup ==
    /\ pc = "parse_opts"
    /\ pc' = "main"
    /\ UNCHANGED <<exit_status, stderr>>
    /\ UNCHANGED <<args, env, mainv, sink, tailv, queryv, out, queries, emitted, ghostv>>

\* parse_opts: --to-date and --tail form a mutually exclusive group
ParseOpts ==
    /\ pc = "parse_opts"
    /\ IF args.tail /\ ~IsNone(args.to_date)
       THEN /\ pc' = "exited"
            /\ exit_status' = "usage"
            /\ stderr' = Append(stderr, "usage")
       ELSE /\ pc' = "main"
            /\ UNCHANGED <<exit_status, stderr>>
    /\ UNCHANGED <<args, env, mainv, sink, tailv, queryv, out, queries, emitted, ghostv>>

\* main, up to the creation of the client
Main ==
    /\ pc = "main"
    /\ formatter' = IF args.api THEN "api_format" ELSE "line_format"
    /\ from_date' = adjust_tz(args.from_date, args.utc)
    /\ to_date' = adjust_tz(args.to_date, args.utc)
    /\ client' = TRUE
    /\ pc' = "output_file"
    /\ UNCHANGED <<args, exit_status, env, sink, tailv, queryv, out, stderr, queries,
                   emitted, ghostv>>

\* output_file: standard output, or the file opened for writing
OutputFile ==
    /\ pc = "output_file"
    /\ IF args.to_file = BadPath
       THEN /\ Exit("failure")
            /\ stderr' = Append(stderr, "Traceback: OSError")
       ELSE /\ sink' = IF args.to_file = NoFile THEN "stdout" ELSE "file"
            /\ pc' = IF args.tail THEN "tail" ELSE "peek"
            /\ UNCHANGED <<exit_status, stderr>>
    /\ UNCHANGED <<args, env, mainv, tailv, queryv, out, queries, emitted, ghostv>>

\* print_logs up to the call of list_entries
IssueQuery(lo, hi) ==
    /\ empty' = TRUE
    /\ filter' = make_filter(args.machine, lo, hi)
    /\ result' = list_entries(entries, filter')
    /\ idx' = 0
    /\ queries' = Append(queries, [lo |-> lo, hi |-> hi, n |-> Len(result')])
    /\ pc' = "print_logs"
    /\ UNCHANGED ret

\* main, tail unset: one bounded query
Peek ==
    /\ pc = "peek"
    /\ IssueQuery(from_date, to_date)
    /\ UNCHANGED <<args, exit_status, env, mainv, sink, tailv, out, stderr, emitted, ghostv>>

\* tail, before the loop
TailStart ==
    /\ pc = "tail"
    /\ low_watermark' = from_date
    /\ pc' = "tail_loop"
    /\ UNCHANGED <<args, exit_status, env, mainv, sink, high_watermark, wake, queryv, out,
                   stderr, queries, emitted, ghostv>>

\* TailIterate that moves the low watermark as soon as the query is issued
TailIterateEarlyAdvance ==
    /\ pc = "tail_loop"
    /\ high_watermark' = NowLocal(now)
    /\ IssueQuery(low_watermark, high_watermark')
    /\ low_watermark' = high_watermark'
    /\ UNCHANGED <<args, exit_status, env, mainv, sink, wake, out, stderr,
                   emitted, ghostv>>

\* tail, top of the loop: capture the high watermark and query
TailIterate ==
    /\ pc = "tail_loop"
    /\ high_watermark' = NowLocal(now)
    /\ IssueQuery(low_watermark, high_watermark')
    /\ UNCHANGED <<args, exit_status, env, mainv, sink, low_watermark, wake, out, stderr,
                   emitted, ghostv>>

\* Emit that forgets to clear the empty flag
EmitKeepsEmpty ==
    /\ pc = "print_logs"
    /\ idx < Len(result)
    /\ out' = Append(out, Format(formatter, result[idx + 1]))
    /\ emitted' = Append(emitted, result[idx + 1])
    /\ idx' = idx + 1
    /\ UNCHANGED <<args, pc, exit_status, env, mainv, sink, tailv, filter, result, empty, ret,
                   stderr, queries, ghostv>>

\* Emit that walks the result from its end
EmitReversed ==
    /\ pc = "print_logs"
    /\ idx < Len(result)
    /\ out' = Append(out, Format(formatter, result[Len(result) - idx]))
    /\ emitted' = Append(emitted, result[Len(result) - idx])
    /\ empty' = FALSE
    /\ idx' = idx + 1
    /\ UNCHANGED <<args, pc, exit_status, env, mainv, sink, tailv, filter, result, ret,
                   stderr, queries, ghostv>>

\* print_logs, one turn of the for loop
Emit ==
    /\ pc = "print_logs"
    /\ idx < Len(result)
    /\ out' = Append(out, Format(formatter, result[idx + 1]))
    /\ emitted' = Append(emitted, result[idx + 1])
    /\ empty' = FALSE
    /\ idx' = idx + 1
    /\ UNCHANGED <<args, pc, exit_status, env, mainv, sink, tailv, filter, result, ret,
                   stderr, queries, ghostv>>

\* ReturnToTail that moves the low watermark whatever the query returned
ReturnToTailAlwaysAdvance ==
    /\ pc = "print_logs"
    /\ args.tail
    /\ idx = Len(result)
    /\ ret' = empty
    /\ low_watermark' = high_watermark
    /\ wake' = now + POLL_INTERVAL
    /\ pc' = "sleep"
    /\ UNCHANGED <<args, exit_status, env, mainv, sink, high_watermark, filter, result, idx,
                   empty, out, stderr, queries, emitted, ghostv>>

\* ReturnToTail with the test on the return value turned around
ReturnToTailInverted ==
    /\ pc = "print_logs"
    /\ args.tail
    /\ idx = Len(result)
    /\ ret' = empty
    /\ low_watermark' = IF ret' THEN high_watermark ELSE low_watermark
    /\ wake' = now + POLL_INTERVAL
    /\ pc' = "sleep"
    /\ UNCHANGED <<args, exit_status, env, mainv, sink, high_watermark, filter, result, idx,
                   empty, out, stderr, queries, emitted, ghostv>>

\* print_logs returns to tail, which moves the low watermark and sleeps
ReturnToTail ==
    /\ pc = "print_logs"
    /\ args.tail
    /\ idx = Len(result)
    /\ ret' = empty
    /\ low_watermark' = IF ~ret' THEN high_watermark ELSE low_watermark
    /\ wake' = now + POLL_INTERVAL
    /\ pc' = "sleep"
    /\ UNCHANGED <<args, exit_status, env, mainv, sink, high_watermark, filter, result, idx,
                   empty, out, stderr, queries, emitted, ghostv>>

\* ReturnToMain that queries again when the result was empty
ReturnToMainRetryOnEmpty ==
    /\ pc = "print_logs"
    /\ ~args.tail
    /\ idx = Len(result)
    /\ ret' = empty
    /\ IF empty
       THEN /\ pc' = "peek"
            /\ UNCHANGED <<exit_status, sink>>
       ELSE Exit("ok")
    /\ UNCHANGED <<args, env, mainv, tailv, filter, result, idx, empty, out, stderr,
                   queries, emitted, ghostv>>

\* print_logs returns to main, which leaves the with-block and ends
ReturnToMain ==
    /\ pc = "print_logs"
    /\ ~args.tail
    /\ idx = Len(result)
    /\ ret' = empty
    /\ Exit("ok")
    /\ UNCHANGED <<args, env, mainv, tailv, filter, result, idx, empty, out, stderr,
                   queries, emitted, ghostv>>

\* time.sleep(POLL_INTERVAL) is over
Wake ==
    /\ pc = "sleep"
    /\ now >= wake
    /\ pc' = "tail_loop"
    /\ UNCHANGED <<args, exit_status, env, mainv, sink, tailv, queryv, out, stderr, queries,
                   emitted, ghostv>>

InTailLoop == args.tail /\ pc \in {"tail_loop", "print_logs", "sleep"}

\* KeyboardInterrupt held back until the query in flight has been drained
KeyboardInterruptAtBoundary ==
    /\ InTailLoop
    /\ sigint' = [at |-> pc, queries |-> Len(queries), out |-> Len(out)]
    /\ stderr' = Append(stderr, Notice)
    /\ Exit("ok")
    /\ IF pc = "print_logs"
       THEN /\ out' = out \o [i \in 1..(Len(result) - idx) |->
                                 Format(formatter, result[idx + i])]
            /\ emitted' = emitted \o [i \in 1..(Len(result) - idx) |-> result[idx + i]]
            /\ idx' = Len(result)
            /\ empty' = (empty /\ result = <<>>)
       ELSE UNCHANGED <<out, emitted, idx, empty>>
    /\ UNCHANGED <<args, env, mainv, tailv, filter, result, ret, queries, failed>>

\* KeyboardInterrupt with the try block around the sleep only
KeyboardInterruptOnlyInSleep ==
    /\ InTailLoop
    /\ sigint' = [at |-> pc, queries |-> Len(queries), out |-> Len(out)]
    /\ IF pc = "sleep"
       THEN /\ stderr' = Append(stderr, Notice)
            /\ Exit("ok")
       ELSE /\ stderr' = Append(stderr, "Traceback: KeyboardInterrupt")
            /\ Exit("failure")
    /\ UNCHANGED <<args, env, mainv, tailv, queryv, out, queries, emitted, failed>>

\* CTRL+C inside the try block of tail
KeyboardInterrupt ==
    /\ InTailLoop
    /\ sigint' = [at |-> pc, queries |-> Len(queries), out |-> Len(out)]
    /\ stderr' = Append(stderr, Notice)
    /\ Exit("ok")
    /\ UNCHANGED <<args, env, mainv, tailv, queryv, out, queries, emitted, failed>>

\* CTRL+C anywhere else: nothing catches it
UncaughtInterrupt ==
    /\ pc # "exited"
    /\ ~InTailLoop
    /\ sigint' = [at |-> pc, queries |-> Len(queries), out |-> Len(out)]
    /\ stderr' = Append(stderr, "Traceback: KeyboardInterrupt")
    /\ Exit("failure")
    /\ UNCHANGED <<args, env, mainv, tailv, queryv, out, queries, emitted, failed>>

\* BackendError caught by the tail loop, which goes on to the next iteration
BackendErrorRetried ==
    /\ pc = "print_logs"
    /\ failed' = [at |-> pc, queries |-> Len(queries), out |-> Len(out)]
    /\ stderr' = Append(stderr, "Traceback: GoogleAPICallError")
    /\ IF args.tail
       THEN /\ pc' = "sleep"
            /\ wake' = now + POLL_INTERVAL
            /\ UNCHANGED <<exit_status, sink>>
       ELSE /\ Exit("failure")
            /\ UNCHANGED wake
    /\ UNCHANGED <<args, env, mainv, low_watermark, high_watermark, queryv, out, queries,
                   emitted, sigint>>

\* the client raises while the result is being fetched
BackendError ==
    /\ pc = "print_logs"
    /\ failed' = [at |-> pc, queries |-> Len(queries), out |-> Len(out)]
    /\ stderr' = Append(stderr, "Traceback: GoogleAPICallError")
    /\ Exit("failure")
    /\ UNCHANGED <<args, env, mainv, tailv, queryv, out, queries, emitted, sigint>>

\* ---- the environment ----------------------------------------------------
Tick ==
    /\ pc # "exited"
    /\ now < MaxTime
    /\ now' = now + 1
    /\ UNCHANGED <<args, pc, exit_status, entries, mainv, sink, tailv, queryv, out, stderr,
                   queries, emitted, ghostv>>

\* a log entry becomes visible in the backend; its timestamp is not in the future
Arrive ==
    /\ pc # "exited"
    /\ Cardinality(entries) < MaxRec
    /\ \E i \in InstanceIds, t \in 0..now, rt \in ResourceTypes :
          entries' = entries \cup {[insert_id |-> Cardinality(entries) + 1, rtype |-> rt,
                                    instance_id |-> i, timestamp |-> t]}
    /\ UNCHANGED <<args, pc, exit_status, now, mainv, sink, tailv, queryv, out, stderr,
                   queries, emitted, ghostv>>

Next ==
    \/ ParseOpts
    \/ Main
    \/ OutputFile
    \/ Peek
    \/ TailStart
    \/ TailIterate
    \/ Emit
    \/ ReturnToTail
    \/ ReturnToMain
    \/ Wake
    \/ KeyboardInterrupt
    \/ UncaughtInterrupt
    \/ BackendError
    \/ Tick
    \/ Arrive

Spec == Init /\ [][Next]_vars

\* ---- properties ---------------------------------------------------------
LastQuery == queries[Len(queries)]

\* print_logs has just returned: to tail (now asleep) or to main (now ended)
Returned == pc = "sleep" \/ (pc = "exited" /\ exit_status = "ok" /\ ~args.tail)

\* e passes the resource-type and instance clauses of this run's filters
Selected(e) ==
    /\ e.rtype = "gce_instance"
    /\ args.machine = <<>> \/ \E i \in 1..Len(args.machine) : args.machine[i] = e.instance_id

WasEmitted(e) == \E i \in 1..Len(emitted) : emitted[i] = e

RECURSIVE SumN(_, _)
SumN(q, k) == IF k = 0 THEN 0 ELSE q[k].n + SumN(q, k - 1)

\* C1: in tail mode the first query starts at the configured start time, and
\* the query after one that returned nothing keeps its lower bound, the query
\* after one that returned something starts at its high watermark.
C1_TailWatermark ==
    args.tail =>
        /\ queries # <<>> => queries[1].lo = adjust_tz(args.from_date, args.utc)
        /\ \A k \in 1..(Len(queries) - 1) :
              queries[k + 1].lo = IF queries[k].n = 0 THEN queries[k].lo ELSE queries[k].hi

C1_Witness ==
    /\ args.tail
    /\ Len(queries) >= 3
    /\ queries[1].n = 0
    /\ queries[2].n > 0

\* C2: an entry whose timestamp lies in a window that was queried and found
\* empty, and which became visible later, is not lost.  Finite-run form: the
\* low watermark never moves back, so such an entry, while not emitted, must
\* still lie at or above the low watermark.
C2_LateEntryInEmptyWindowCaught ==
    InTailLoop =>
        \A e \in entries : \A k \in 1..Len(queries) :
            ( /\ Selected(e)
              /\ queries[k].n = 0
              /\ Instant(queries[k].lo) <= e.timestamp
              /\ e.timestamp <= Instant(queries[k].hi) )
            => WasEmitted(e) \/ e.timestamp >= Instant(low_watermark)

\* C3: no backend entry is emitted more than once over the tail iterations.
C3_NoDuplicateEmission ==
    args.tail =>
        \A i, j \in 1..Len(emitted) : emitted[i] = emitted[j] => i = j

\* C4: no loss.  Finite-run form: every visible entry at or after the start
\* time that the filters select has been emitted or can still be returned by
\* a later query, that is, lies at or above the low watermark.
C4_NoLoss ==
    InTailLoop =>
        \A e \in entries :
            Selected(e) /\ e.timestamp >= Instant(from_date)
            => WasEmitted(e) \/ e.timestamp >= Instant(low_watermark)

\* C5 as claimed: print_logs returns true when the query returned at least
\* one entry and false when it returned none.
C5_ReturnsAnyEntry ==
    Returned => (ret <=> LastQuery.n >= 1)

\* C5 as amended: print_logs returns true exactly when the query returned no
\* entry.
C5_ReturnsEmpty ==
    Returned => (ret <=> LastQuery.n = 0)

C5_Witness ==
    /\ Returned
    /\ LastQuery.n >= 1
    /\ ~ret

\* C6 as claimed: an interrupt that arrives while a query is in flight lets
\* that query run to completion, all entries of its result being emitted.
C6_QueryRunsToCompletion ==
    args.tail /\ sigint.at = "print_logs" => idx = Len(result)

\* C6 as amended: an interrupt that arrives while a query is in flight stops
\* the loop at once; nothing more of the result is emitted.
C6_InterruptAbandonsQuery ==
    args.tail /\ sigint.at = "print_logs" =>
        /\ pc = "exited"
        /\ Len(out) = sigint.out
        /\ Len(out) = SumN(queries, Len(queries) - 1) + idx

C6_Witness ==
    /\ args.tail
    /\ sigint.at = "print_logs"
    /\ idx = 1
    /\ Len(result) = 2

\* C7: an interrupt anywhere in the tail loop stops the loop, issues no
\* further query, prints the notice on the error stream and ends the process
\* successfully.
C7_InterruptEndsTailCleanly ==
    args.tail /\ sigint.at \in {"tail_loop", "print_logs", "sleep"} =>
        /\ pc = "exited"
        /\ exit_status = "ok"
        /\ stderr = <<Notice>>
        /\ Len(queries) = sigint.queries

C7_Witness ==
    /\ args.tail
    /\ sigint.at = "print_logs"
    /\ exit_status = "ok"
    /\ Len(queries) = 2

\* C8: a backend error during a query, in peek mode or in a tail iteration,
\* is neither caught nor retried: no further query, failure exit.
C8_BackendErrorEndsRun ==
    failed.at # "" =>
        /\ pc = "exited"
        /\ exit_status = "failure"
        /\ Len(queries) = failed.queries

C8_Witness ==
    /\ failed.at # ""
    /\ args.tail
    /\ Len(queries) = 2
    /\ now < MaxTime

\* C9: a bounded query whose result has N entries writes exactly N lines, in
\* the backend's order, each the selected formatter applied to its entry.
C9_LinesFollowResult ==
    Returned =>
        LET N    == Len(result)
            base == SumN(queries, Len(queries) - 1)
            fmt  == IF args.api THEN "api_format" ELSE "line_format"
        IN  /\ LastQuery.n = N
            /\ Len(out) = base + N
            /\ \A i \in 1..N : out[base + i] = Format(fmt, result[i])

C9_Witness ==
    /\ Returned
    /\ Len(result) = 2
    /\ result[1] # result[2]
    /\ Format(formatter, result[1]) # Format(formatter, result[2])

\* C10: the filter is the resource-type clause, then the parenthesized OR of
\* one instance clause per name iff names are given, then the lower-bound
\* clause, then the upper-bound clause iff an upper bound is given, joined
\* by AND.
C10_FilterShape ==
    queries # <<>> =>
        LET S == args.machine
            g == Len(S)
            a == LastQuery.lo
            b == LastQuery.hi
            p == IF g = 0 THEN 1 ELSE 2 * g + 3
            f == filter
        IN  /\ Len(f) = p + 2 + (IF IsNone(b) THEN 0 ELSE 2)
            /\ f[1] = <<RT, "gce_instance">>
            /\ g > 0 =>
                  /\ f[2] = AND
                  /\ f[3] = LP
                  /\ \A i \in 1..g : f[2 * i + 2] = <<INST, S[i]>>
                  /\ \A i \in 1..(g - 1) : f[2 * i + 3] = OR
                  /\ f[p] = RP
            /\ g = 0 => \A i \in 1..Len(f) : f[i] \notin {LP, RP, OR} /\ f[i][1] # INST
            /\ f[p + 1] = AND
            /\ f[p + 2] = <<GE, isoformat(a)>>
            /\ ~IsNone(b) => f[p + 3] = AND /\ f[p + 4] = <<LE, isoformat(b)>>

C10_Witness ==
    /\ queries # <<>>
    /\ Len(args.machine) = 2
    /\ ~IsNone(LastQuery.hi)
    /\ ~args.tail

\* the iteration that emitted the i-th line
RECURSIVE IterOf(_, _)
IterOf(i, k) == IF i <= SumN(queries, k) THEN k ELSE IterOf(i, k + 1)

\* C11: across tail iterations no entry is emitted out of order: an entry
\* emitted in a later iteration has a timestamp not earlier than that of any
\* entry emitted in an earlier iteration.
C11_EmissionInTimeOrder ==
    args.tail =>
        \A i, j \in 1..Len(emitted) :
            IterOf(i, 1) < IterOf(j, 1) => emitted[i].timestamp <= emitted[j].timestamp

C11_Witness ==
    /\ args.tail
    /\ Len(queries) = 2
    /\ queries[1].n = 1
    /\ queries[2].n = 1
    /\ Len(emitted) = 2
    /\ emitted[1].timestamp < emitted[2].timestamp

\* C12: a command line with both --tail and --to-date is rejected by the
\* option parser: no client is created and no query is issued for it, so
\* whenever a query has been issued the two are not both set.
C12_TailExcludesToDate ==
    /\ args.tail /\ ~IsNone(args.to_date) =>
          /\ ~client
          /\ queries = <<>>
          /\ pc \in {"parse_opts", "exited"}
          /\ exit_status \in {"running", "usage", "failure"}
    /\ queries # <<>> => ~(args.tail /\ ~IsNone(args.to_date))

C12_Witness ==
    /\ args.tail
    /\ ~IsNone(args.to_date)
    /\ pc = "exited"
    /\ exit_status = "usage"

\* what C13 says of one timestamp: given, the value on the command line;
\* used, the value main works with
TzAdjusted(given, used, utc) ==
    /\ IsNone(given) => IsNone(used)
    /\ given.tz \in {"utc", "local"} => used = given
    /\ given.tz = "naive" =>
          /\ used.wall = given.wall
          /\ used.tz = IF utc THEN "utc" ELSE "local"
          /\ Instant(used) = IF utc THEN given.wall ELSE given.wall - LocalOffset

\* C13: adjust_tz leaves an absent timestamp absent and a timestamp with
\* timezone information unaltered whatever the utc flag; a naive timestamp
\* keeps its wall-clock fields and gets UTC attached when the utc flag is
\* set, the local timezone when it is not.
C13_AdjustTz ==
    client =>
        /\ TzAdjusted(args.from_date, from_date, args.utc)
        /\ TzAdjusted(args.to_date, to_date, args.utc)

C13_Witness ==
    /\ client
    /\ args.from_date.tz = "naive"
    /\ args.utc
    /\ ~IsNone(args.to_date)
    /\ from_date.tz = "utc"

\* C14: the sink is acquired once, before the first query, and held until
\* after the last one; when the file cannot be opened the run fails at
\* startup without any query; and on every exit path a file that was opened
\* is released.
C14_SinkLifetime ==
    /\ [](/\ queries # <<>> => sink # "unopened"
          /\ pc \in {"peek", "tail", "tail_loop", "print_logs", "sleep"}
                => sink = (IF args.to_file = NoFile THEN "stdout" ELSE "file")
          /\ args.to_file = BadPath =>
                /\ queries = <<>>
                /\ sink = "unopened"
                /\ pc = "exited" => exit_status \in {"failure", "usage"}
          /\ pc = "exited" => sink # "file")
    /\ [][sink' # sink =>
             \/ sink = "unopened" /\ pc = "output_file" /\ queries = <<>>
             \/ sink = "file" /\ sink' = "closed" /\ pc' = "exited"]_vars

C14_Witness ==
    /\ pc = "exited"
    /\ sink = "closed"
    /\ failed.at # ""
    /\ args.tail
    /\ Len(queries) = 2

\* C15: in peek mode exactly one query is issued, from the configured start
\* to the configured end if there is one; whether or not its result is
\* empty, no second query follows and the process ends successfully.
C15_PeekQueriesOnce ==
    ~args.tail =>
        /\ Len(queries) <= 1
        /\ queries # <<>> =>
              /\ queries[1].lo = adjust_tz(args.from_date, args.utc)
              /\ queries[1].hi = adjust_tz(args.to_date, args.utc)
        /\ pc = "print_logs" => Len(queries) = 1
        /\ pc = "exited" /\ sigint.at = "" /\ failed.at = "" /\ args.to_file # BadPath
              => exit_status = "ok" /\ Len(queries) = 1 /\ idx = queries[1].n

C15_Witness ==
    /\ ~args.tail
    /\ pc = "exited"
    /\ exit_status = "ok"
    /\ Len(queries) = 1
    /\ queries[1].n = 0
    /\ entries # {}

\* C16: a tail iteration changes nothing but the watermark pair: machines,
\* formatter and sink stay as they are; the high watermark is set to the
\* current time once per iteration, when the query is issued; the low
\* watermark is assigned only once the iteration's query has finished.
C16_TailFrame ==
    [][InTailLoop /\ InTailLoop' =>
          /\ args' = args
          /\ formatter' = formatter
          /\ sink' = sink
          /\ Len(queries') # Len(queries) =>
                /\ Len(queries') = Len(queries) + 1
                /\ high_watermark' = NowLocal(now)
                /\ queries'[Len(queries')].hi = high_watermark'
                /\ queries'[Len(queries')].lo = low_watermark
          /\ high_watermark' # high_watermark => Len(queries') = Len(queries) + 1
          /\ low_watermark' # low_watermark =>
                /\ pc = "print_logs" /\ idx = Len(result) /\ pc' = "sleep"
                /\ queries' = queries
                /\ low_watermark' = high_watermark]_vars

C16_Witness ==
    /\ args.tail
    /\ pc = "sleep"
    /\ Len(queries) = 2
    /\ low_watermark = queries[2].hi
    /\ queries[2].lo # queries[2].hi
    /\ sink = "file"

\* the queries whose print_logs has returned
Finished == IF pc = "print_logs" THEN Len(queries) - 1 ELSE Len(queries)

\* C17: the low watermark never decreases, also when the start time lies
\* after the first high watermark: it is the configured start until the
\* first non-empty query has returned, and from then on the high watermark
\* of an earlier non-empty query, not later than the current high watermark.
C17_LowWatermarkMonotone ==
    /\ [](InTailLoop =>
            IF \A k \in 1..Finished : queries[k].n = 0
            THEN low_watermark = adjust_tz(args.from_date, args.utc)
            ELSE /\ \E k \in 1..Finished : queries[k].n > 0 /\ queries[k].hi = low_watermark
                 /\ Instant(low_watermark) <= Instant(high_watermark)
                 /\ Instant(low_watermark) >= Instant(adjust_tz(args.from_date, args.utc)))
    /\ [][InTailLoop /\ InTailLoop' =>
             Instant(low_watermark') >= Instant(low_watermark)]_vars

C17_Witness ==
    /\ InTailLoop
    /\ Len(queries) = 2
    /\ Instant(queries[1].lo) > Instant(queries[1].hi)
    /\ queries[2].n > 0
    /\ low_watermark = queries[2].hi

====
